---- MODULE Spec2Model ----
(***************************************************************************)
(* Model of MpciumClient (src/src/client.ts, current revision, lines       *)
(* 1-531) together with the JetStream broker it talks to: the request      *)
(* operations with their durable/best-effort publish paths, the three      *)
(* result subscriptions with their stream/consumer provisioning and pull   *)
(* loops, and cleanup().                                                   *)
(***************************************************************************)
EXTENDS Integers, Sequences, FiniteSets, TLC

\* ------------------------------------------------------------------ bounds
MaxTasks == 2     \* subscribe calls made on the client
MaxLoopTasks == 1 \* subscribe calls in the specifications with result messages
MaxMsgs  == 1     \* result messages the remote service publishes
MaxUuid  == 2     \* uuidv4() draws

\* ------------------------------------------------------- program constants
MaxDeliver == 3         \* max_deliver of the durable consumers
ErrOverlap == 10065     \* err_code "subjects overlap with an existing stream"
KeyBytes   == 32        \* Ed25519 private key length the signers require

Tasks == 1..MaxTasks
LoopTasks == 1..MaxLoopTasks
Msgs  == 1..MaxMsgs
Cats  == {"keygen", "signing", "reshare"}

\* ------------------------------------------------------------- subjects
\* A subject is its sequence of dot-separated tokens.
KEYGEN_RESULT   == <<"mpc", "mpc_keygen_result", "*">>
SIGNING_RESULT  == <<"mpc", "mpc_signing_result", "*">>
RESHARE_RESULT  == <<"mpc", "mpc_reshare_result", "*">>
RESHARE_REQUEST == <<"mpc:reshare">>
KeygenRequestFilter  == <<"mpc", "keygen_request", "*">>
SigningRequestFilter == <<"mpc", "signing_request", "*">>
KeygenRequestSubject == <<"mpc", "keygen_request">>
SigningRequestSubject(txId) == <<"mpc", "signing_request", txId>>

ResultFilter(c) ==
  CASE c = "keygen"  -> KEYGEN_RESULT
    [] c = "signing" -> SIGNING_RESULT
    [] c = "reshare" -> RESHARE_RESULT

ConsumerName(c) ==
  CASE c = "keygen"  -> "mpc_keygen_result"
    [] c = "signing" -> "mpc_signing_result"
    [] c = "reshare" -> "mpc_reshare_result"

\* The subject the remote service publishes a result of category c on.
ResultSubject(c, id) == <<"mpc", ConsumerName(c), id>>

\* NATS subject matching: "*" matches one token, ">" one or more trailing.
RECURSIVE SubjectMatches(_, _)
SubjectMatches(filter, subj) ==
  IF Len(filter) = 0 THEN Len(subj) = 0
  ELSE IF Len(subj) = 0 THEN FALSE
  ELSE IF Head(filter) = ">" THEN Len(filter) = 1
  ELSE IF Head(filter) = "*" \/ Head(filter) = Head(subj)
       THEN SubjectMatches(Tail(filter), Tail(subj))
  ELSE FALSE

\* Two subject filters overlap when some subject matches both.
RECURSIVE SubjectsOverlap(_, _)
SubjectsOverlap(a, b) ==
  IF Len(a) = 0 \/ Len(b) = 0 THEN Len(a) = 0 /\ Len(b) = 0
  ELSE IF Head(a) = ">" \/ Head(b) = ">" THEN TRUE
  ELSE IF Head(a) = "*" \/ Head(b) = "*" \/ Head(a) = Head(b)
       THEN SubjectsOverlap(Tail(a), Tail(b))
  ELSE FALSE

\* ------------------------------------------------------------ variables
VARIABLES
  jsAvailable,    \* broker: JetStream enabled and reachable
  streams,        \* broker: stream name -> set of subject filters ({} = absent)
  consumers,      \* broker: set of durable consumers [stream, name, filter]
  msgs,           \* broker: result messages, m -> [cat, payload, state, deliveries, handle]
  keyLen,         \* client: length of privateKey
  subscriptions,  \* client: this.subscriptions
  handleState,    \* ConsumerMessages of task t: "none" | "open" | "stopped"
  stopCount,      \* number of stop() calls made on the handle of task t
  tpc,            \* position of the async body of subscribe call t
  tcat,           \* result category of subscribe call t
  req,            \* the request operation in progress or last returned
  uuidCount,      \* uuidv4() draws so far
  hist,           \* m -> the sequence of delivery attempts handled by a pull loop
  cleaned,        \* cleanup() has been called
  raced,          \* subscribe calls that were provisioning when cleanup() ran
  listedAtCleanup, \* handles found in this.subscriptions by some cleanup()
  respondFails,   \* connection: m.ack() and m.term() throw (no reply can be sent)
  call,           \* the last call of MpciumClient.create or of a signer on its own
  ncOpen,         \* options.nc, the injected connection, has not been closed or drained
  issued          \* the ids createWallet() returned when called without an id

vars == <<jsAvailable, streams, consumers, msgs, keyLen, subscriptions,
          handleState, stopCount, tpc, tcat, req, uuidCount, hist,
          cleaned, raced, listedAtCleanup, respondFails, call, ncOpen,
          issued>>

brokerVars == <<jsAvailable, streams, consumers, msgs>>
subVars    == <<subscriptions, handleState, stopCount, tpc, tcat>>
reqVars    == <<req, uuidCount, issued>>
ghostVars  == <<cleaned, raced, listedAtCleanup>>
auxVars    == <<respondFails, call, ncOpen>>

StreamNames == {"mpc", "mpc-keygen", "mpc-signing", "ext"}

Range(s) == {s[i] : i \in DOMAIN s}

\* ------------------------------------------------------------ the broker
\* Streams a third party (the MPC node cluster) may have provisioned.
ExtStreamChoices == {{}, {<<"mpc", ">">>}, {KeygenRequestFilter}}

StreamExists(name) == streams[name] # {}

\* Some stream captures the subject.
Captured(subj) ==
  \E n \in StreamNames : \E f \in streams[n] : SubjectMatches(f, subj)

CapturedBy(n, subj) == \E f \in streams[n] : SubjectMatches(f, subj)

\* The answers to jsm.streams.add: success, or an error with its err_code
\* (-1 stands for an error without api_error or with any other code).
AddOk        == [ok |-> TRUE,  err_code |-> 0]
AddOverlap   == [ok |-> FALSE, err_code |-> ErrOverlap]
AddOtherErr  == [ok |-> FALSE, err_code |-> -1]

\* Outcomes the broker can answer jsm.streams.add({name, subjects}) with.
AddStreamOutcomes(name, subjects) ==
  IF ~jsAvailable THEN {AddOtherErr}
  ELSE IF StreamExists(name)
       THEN (IF streams[name] = subjects THEN {AddOk} ELSE {AddOtherErr})
  ELSE IF \E n \in StreamNames \ {name} : \E f \in streams[n] :
             \E g \in subjects : SubjectsOverlap(f, g)
       THEN {AddOverlap}
  ELSE {AddOk, AddOtherErr}

StreamsAfterAdd(name, subjects, outcome) ==
  IF outcome.ok THEN [streams EXCEPT ![name] = subjects] ELSE streams

\* Variant: the catch block lets every rejected creation pass.
IsOverlapErrorAny(outcome) == ~outcome.ok

\* err instanceof NatsError && err.api_error?.err_code === 10065
IsOverlapError(outcome) == ~outcome.ok /\ outcome.err_code = ErrOverlap

ConsumerOf(c) ==
  [stream |-> "mpc", name |-> ConsumerName(c), filter |-> ResultFilter(c)]

ConsumerExists(c) == \E k \in consumers : k.stream = "mpc" /\ k.name = ConsumerName(c)

\* Variant: the broker rejects the creation of a durable consumer whose name
\* is taken, whatever its configuration.
AddConsumerOutcomesNameTaken(c) ==
  IF ~jsAvailable \/ ~StreamExists("mpc") \/ ConsumerExists(c) THEN {"other"}
  ELSE {"ok", "other"}

\* Outcomes of jsm.consumers.add("mpc", {...}).
AddConsumerOutcomes(c) ==
  IF ~jsAvailable \/ ~StreamExists("mpc") THEN {"other"}
  ELSE IF ConsumerExists(c) THEN {"ok"}
  ELSE {"ok", "other"}

\* Variant: the durable consumer is created without max_deliver.
DeliveriesLeftAlways(deliveries) == TRUE

\* max_deliver: MaxDeliver: the broker hands a message out again only while it
\* has been delivered fewer than MaxDeliver times.
DeliveriesLeft(deliveries) == deliveries < MaxDeliver

\* A message whose delivery got no final disposition waits for redelivery, or
\* is given up.
AfterNoDisposition(deliveries) ==
  IF DeliveriesLeft(deliveries) THEN "pending" ELSE "dead"

\* What the broker does with a delivery once the disposition arrives; a
\* delivery that was handled without any disposition stays outstanding.
BrokerAfter(disp, deliveries) ==
  CASE disp = "ack"  -> "acked"
    [] disp = "term" -> "termed"
    [] disp = "nak"  -> AfterNoDisposition(deliveries)
    [] disp = "none" -> "unanswered"

\* ------------------------------------------------------- result messages
NoEvent == "none"
Events  == {"e1", "e2"}
Garbage == [wellFormed |-> FALSE, body |-> "garbage"]
Payloads == {[wellFormed |-> TRUE, body |-> e] : e \in Events} \cup {Garbage}

\* jc.decode(m.data): JSON parsing succeeds on well-formed payloads only.
Decode(data) ==
  IF data.wellFormed THEN [ok |-> TRUE, event |-> data.body]
  ELSE [ok |-> FALSE, event |-> NoEvent]

\* Whether the caller's callback throws when handed the event of data; a
\* payload that does not decode yields no event to hand over.
CallbackOutcomes(data) == IF Decode(data).ok THEN BOOLEAN ELSE {FALSE}

\* Variant: the catch block negative-acks whatever failed, decoding included.
HandleMessageCatchNak(data, cbThrows) ==
  LET d == Decode(data) IN
  IF ~d.ok
    THEN [invoked |-> FALSE, calls |-> 0, event |-> NoEvent,
          disp |-> "nak",
          disps |-> <<"nak">>]
  ELSE IF cbThrows
    THEN [invoked |-> TRUE, calls |-> 1, event |-> d.event,
          disp |-> "nak",
          disps |-> <<"nak">>]
  ELSE [invoked |-> TRUE, calls |-> 1, event |-> d.event, disp |-> "ack",
        disps |-> <<"ack">>]

\* Variant: m.ack() is issued before the callback is invoked.
HandleMessageAckFirst(data, cbThrows) ==
  LET d == Decode(data) IN
  IF ~d.ok
    THEN [invoked |-> FALSE, calls |-> 0, event |-> NoEvent,
          disp |-> "term",
          disps |-> <<"term">>]
  ELSE [invoked |-> TRUE, calls |-> 1, event |-> d.event, disp |-> "ack",
        disps |-> <<"ack">>]

\* Variant: a callback that throws is given the event a second time.
HandleMessageRetryCallback(data, cbThrows) ==
  LET d == Decode(data) IN
  IF ~d.ok
    THEN [invoked |-> FALSE, calls |-> 0, event |-> NoEvent,
          disp |-> "term",
          disps |-> <<"term">>]
  ELSE IF cbThrows
    THEN [invoked |-> TRUE, calls |-> 2, event |-> d.event,
          disp |-> "term",
          disps |-> <<"term">>]
  ELSE [invoked |-> TRUE, calls |-> 1, event |-> d.event, disp |-> "ack",
        disps |-> <<"ack">>]

\* Variant: the terminate call sits in a finally block and follows the ack.
HandleMessageTermInFinally(data, cbThrows) ==
  LET d == Decode(data) IN
  IF ~d.ok
    THEN [invoked |-> FALSE, calls |-> 0, event |-> NoEvent,
          disp |-> "term",
          disps |-> <<"term">>]
  ELSE IF cbThrows
    THEN [invoked |-> TRUE, calls |-> 1, event |-> d.event,
          disp |-> "term",
          disps |-> <<"term">>]
  ELSE [invoked |-> TRUE, calls |-> 1, event |-> d.event, disp |-> "ack",
        disps |-> <<"ack", "term">>]

\* Variant: the catch block logs the error and issues no disposition.
HandleMessageCatchLogsOnly(data, cbThrows) ==
  LET d == Decode(data) IN
  IF ~d.ok
    THEN [invoked |-> FALSE, calls |-> 0, event |-> NoEvent,
          disp |-> "none",
          disps |-> <<>>]
  ELSE IF cbThrows
    THEN [invoked |-> TRUE, calls |-> 1, event |-> d.event,
          disp |-> "none",
          disps |-> <<>>]
  ELSE [invoked |-> TRUE, calls |-> 1, event |-> d.event, disp |-> "ack",
        disps |-> <<"ack">>]

\* One iteration of the for-await body of a result pull loop on the payload
\* data, with a callback that throws or not: whether the callback was
\* invoked and how many times, the event it was given, the disposition the
\* broker acts on and the dispositions issued, in order.
HandleMessage(data, cbThrows) ==
  LET d == Decode(data) IN
  IF ~d.ok
    THEN [invoked |-> FALSE, calls |-> 0, event |-> NoEvent,
          disp |-> "term",
          disps |-> <<"term">>]
  ELSE IF cbThrows
    THEN [invoked |-> TRUE, calls |-> 1, event |-> d.event,
          disp |-> "term",
          disps |-> <<"term">>]
  ELSE [invoked |-> TRUE, calls |-> 1, event |-> d.event, disp |-> "ack",
        disps |-> <<"ack">>]

NoMsg == [cat |-> "none", payload |-> [wellFormed |-> TRUE, body |-> "e1"],
          state |-> "none", deliveries |-> 0, handle |-> 0]

\* ------------------------------------------------- MpciumClient.create
\* A key path is the sequence of its dot-separated parts.
KeyPaths ==
  {<<"initiator", "key">>, <<"initiator", "key", "age">>,
   <<"initiator", "age", "bak">>}

\* options.keyPath.endsWith(".age")
EndsWithAge(path) == Len(path) >= 2 /\ path[Len(path)] = "age"

\* options.password: left out, empty or a passphrase.
NoPassword == "undefined"
Passwords  == {NoPassword, "", "secret"}

\* !options.password
Falsy(password) == password \in {NoPassword, ""}

CreateOptions == [keyPath : KeyPaths, encrypted : BOOLEAN, password : Passwords]

\* A key file: the number of hex digits of the key it holds and whether it
\* can be read (and, where it is encrypted, decrypted with the passphrase).
KeyFileChars == {2 * KeyBytes - 2, 2 * KeyBytes - 1, 2 * KeyBytes}
KeyFiles == [chars : KeyFileChars, loadable : BOOLEAN]

\* Buffer.from(hex, "hex").length: two digits per byte, a last odd one dropped.
HexDecodeLen(chars) == chars \div 2

\* loadPrivateKey(path): the Buffer of the decoded file, or a throw.
loadPrivateKey(file) ==
  IF file.loadable THEN [ok |-> TRUE, len |-> HexDecodeLen(file.chars)]
  ELSE [ok |-> FALSE, len |-> 0]

\* loadEncryptedPrivateKey(path, passphrase)
loadEncryptedPrivateKey(file, passphrase) ==
  IF file.loadable THEN [ok |-> TRUE, len |-> HexDecodeLen(file.chars)]
  ELSE [ok |-> FALSE, len |-> 0]

\* Variant: only the explicit flag selects the encrypted loader.
IsEncryptedFlagOnly(o) == o.encrypted

\* const isEncrypted = options.encrypted || options.keyPath.endsWith(".age")
IsEncrypted(o) == o.encrypted \/ EndsWithAge(o.keyPath)

\* MpciumClient.create(options) on the key file: whether a client was
\* constructed, the loader that was called and the length of the key held.
Create(o, file) ==
  IF IsEncrypted(o)
    THEN IF Falsy(o.password)
           THEN [ok |-> FALSE, loader |-> "none", keyLen |-> 0]
         ELSE LET k == loadEncryptedPrivateKey(file, o.password) IN
              [ok |-> k.ok, loader |-> "encrypted", keyLen |-> k.len]
  ELSE LET k == loadPrivateKey(file) IN
       [ok |-> k.ok, loader |-> "plain", keyLen |-> k.len]

\* The key lengths of the clients create can construct.
ClientKeyLens ==
  {Create(o, f).keyLen : <<o, f>> \in
     {x \in CreateOptions \X KeyFiles : Create(x[1], x[2]).ok}}

NoCall == [fn |-> "none"]

\* ----------------------------------------------------------------- Init
IdleReq ==
  [op |-> "none", pc |-> "idle", id |-> "", late |-> FALSE, msg |-> <<>>,
   log |-> <<>>, dur |-> "none", failAt |-> "none", dsubj |-> <<>>, dpay |-> <<>>,
   core |-> FALSE, csubj |-> <<>>, cpay |-> <<>>, stored |-> 0,
   ret |-> "none", rt |-> 0, supplied |-> "", rv |-> ""]

Init ==
  /\ jsAvailable \in BOOLEAN
  /\ \E ext \in ExtStreamChoices :
        streams = [n \in StreamNames |-> IF n = "ext" THEN ext ELSE {}]
  /\ consumers = {}
  /\ msgs = [m \in Msgs |-> NoMsg]
  /\ keyLen \in ClientKeyLens
  /\ subscriptions = <<>>
  /\ handleState = [t \in Tasks |-> "none"]
  /\ stopCount = [t \in Tasks |-> 0]
  /\ tpc = [t \in Tasks |-> "idle"]
  /\ tcat = [t \in Tasks |-> "none"]
  /\ req = IdleReq
  /\ uuidCount = 0
  /\ hist = [m \in Msgs |-> <<>>]
  /\ cleaned = FALSE
  /\ raced = {}
  /\ listedAtCleanup = {}
  /\ respondFails = FALSE
  /\ call = NoCall
  /\ ncOpen = TRUE
  /\ issued = <<>>

\* ------------------------------------------------- subscribe operations
\* The positions of the async body at which stream/consumer setup is pending.
Provisioning == {"jsm", "sinfo", "sadd", "cinfo", "cadd", "get", "consume"}

\* on<Category>Result(callback): the synchronous part, up to the first await.
SubscribeCall(t, c) ==
  /\ tpc[t] = "idle"
  /\ IF t = 1 THEN TRUE ELSE tpc[t - 1] # "idle"
  /\ tpc' = [tpc EXCEPT ![t] = "jsm"]
  /\ tcat' = [tcat EXCEPT ![t] = c]
  /\ UNCHANGED <<brokerVars, keyLen, subscriptions, handleState, stopCount,
                 reqVars, hist, ghostVars, auxVars>>

\* What the caller of on<Category>Result(callback) gets from the call: the
\* operation returns void as soon as the async body reaches its first await,
\* and the rejection of that body goes to its .catch, which logs.
SubscribeReturn(t) == IF tpc[t] = "idle" THEN "none" ELSE "void"

\* await nc.jetstreamManager()
SubJsm(t) ==
  /\ tpc[t] = "jsm"
  /\ tpc' = [tpc EXCEPT ![t] = IF jsAvailable THEN "sinfo" ELSE "failed"]
  /\ UNCHANGED <<brokerVars, keyLen, subscriptions, handleState, stopCount,
                 tcat, reqVars, hist, ghostVars, auxVars>>

\* await jsm.streams.info("mpc")
SubStreamInfo(t) ==
  /\ tpc[t] = "sinfo"
  /\ tpc' = [tpc EXCEPT ![t] =
              IF jsAvailable /\ StreamExists("mpc") THEN "cinfo" ELSE "sadd"]
  /\ UNCHANGED <<brokerVars, keyLen, subscriptions, handleState, stopCount,
                 tcat, reqVars, hist, ghostVars, auxVars>>

\* await jsm.streams.add({name: "mpc", subjects: [<category filter>]})
SubStreamAdd(t) ==
  /\ tpc[t] = "sadd"
  /\ \E o \in AddStreamOutcomes("mpc", {ResultFilter(tcat[t])}) :
       /\ streams' = StreamsAfterAdd("mpc", {ResultFilter(tcat[t])}, o)
       /\ tpc' = [tpc EXCEPT ![t] =
                   IF o.ok \/ IsOverlapError(o) THEN "cinfo" ELSE "failed"]
  /\ UNCHANGED <<jsAvailable, consumers, msgs, keyLen, subscriptions,
                 handleState, stopCount, tcat, reqVars, hist, ghostVars, auxVars>>

\* await jsm.consumers.info("mpc", consumerName)
SubConsumerInfo(t) ==
  /\ tpc[t] = "cinfo"
  /\ tpc' = [tpc EXCEPT ![t] =
              IF jsAvailable /\ ConsumerExists(tcat[t]) THEN "get" ELSE "cadd"]
  /\ UNCHANGED <<brokerVars, keyLen, subscriptions, handleState, stopCount,
                 tcat, reqVars, hist, ghostVars, auxVars>>

\* await jsm.consumers.add("mpc", {durable_name, filter_subject, max_deliver})
SubConsumerAdd(t) ==
  /\ tpc[t] = "cadd"
  /\ \E o \in AddConsumerOutcomes(tcat[t]) :
       /\ consumers' = IF o = "ok" THEN consumers \cup {ConsumerOf(tcat[t])}
                       ELSE consumers
       /\ tpc' = [tpc EXCEPT ![t] = IF o = "ok" THEN "get" ELSE "failed"]
  /\ UNCHANGED <<jsAvailable, streams, msgs, keyLen, subscriptions,
                 handleState, stopCount, tcat, reqVars, hist, ghostVars, auxVars>>

\* await js.consumers.get("mpc", consumerName)
SubConsumerGet(t) ==
  /\ tpc[t] = "get"
  /\ tpc' = [tpc EXCEPT ![t] =
              IF jsAvailable /\ ConsumerExists(tcat[t]) THEN "consume"
              ELSE "failed"]
  /\ UNCHANGED <<brokerVars, keyLen, subscriptions, handleState, stopCount,
                 tcat, reqVars, hist, ghostVars, auxVars>>

\* Variant: the handle is not put on the list.
PushSubscriptionSkipped(subs, h) == subs

\* this.subscriptions.push(sub)
PushSubscription(subs, h) == Append(subs, h)

\* const sub = await consumer.consume(); this.subscriptions.push(sub);
SubConsume(t) ==
  /\ tpc[t] = "consume"
  /\ handleState' = [handleState EXCEPT ![t] = "open"]
  /\ subscriptions' = PushSubscription(subscriptions, t)
  /\ tpc' = [tpc EXCEPT ![t] = "loop"]
  /\ UNCHANGED <<brokerVars, keyLen, stopCount, tcat, reqVars, hist,
                 ghostVars, auxVars>>

\* The for-await loop ends once its ConsumerMessages has been stopped.
LoopExit(t) ==
  /\ tpc[t] = "loop"
  /\ handleState[t] = "stopped"
  /\ tpc' = [tpc EXCEPT ![t] = "done"]
  /\ UNCHANGED <<brokerVars, keyLen, subscriptions, handleState, stopCount,
                 tcat, reqVars, hist, ghostVars, auxVars>>

\* for await (const m of sub): the iterator of a ConsumerMessages yields
\* messages until sub.stop() is called on it.
Yields(state) == state = "open"

\* The kinds of callback a caller can register: one that does its work before
\* it returns or throws, and an async function, which returns a promise at
\* once and settles it later.
CallbackKinds == {"sync", "async"}

\* What the loop sees of the call callback(event): an async function never
\* throws into its caller.
CallbackThrows(data, kind) ==
  IF kind = "async" THEN {FALSE} ELSE CallbackOutcomes(data)

\* Where the caller's handling of the event stands when callback(event) is
\* over.
HandlerAfterCall(invoked, kind, cbThrows) ==
  IF ~invoked THEN "none"
  ELSE IF kind = "async" THEN "pending"
  ELSE IF cbThrows THEN "threw"
  ELSE "returned"

\* One iteration of the pull loop of task t on a delivered message m, with a
\* callback of one of the kinds. When the disposition calls throw, m.ack()
\* lands in the catch block, m.term() throws out of it and out of the
\* for-await loop, and the rejection of the async body is logged by its
\* .catch: the loop is over, its handle not stopped.
Iteration(t, m, kinds) ==
  /\ tpc[t] = "loop"
  /\ Yields(handleState[t])
  /\ msgs[m].state = "inflight"
  /\ msgs[m].handle = t
  /\ \E kind \in kinds : \E cbThrows \in CallbackThrows(msgs[m].payload, kind) :
       LET d == HandleMessage(msgs[m].payload, cbThrows) IN
       /\ hist' = [hist EXCEPT ![m] = Append(@,
                     [data |-> msgs[m].payload, cbThrows |-> cbThrows,
                      invoked |-> d.invoked, calls |-> d.calls,
                      event |-> d.event,
                      handler |-> HandlerAfterCall(d.invoked, kind, cbThrows),
                      afterStop |-> FALSE,
                      disp |-> IF respondFails THEN "none" ELSE d.disp,
                      disps |-> IF respondFails THEN <<>> ELSE d.disps])]
       /\ msgs' = IF respondFails THEN msgs
                  ELSE [msgs EXCEPT ![m].state =
                          BrokerAfter(d.disp, msgs[m].deliveries)]
  /\ tpc' = IF respondFails THEN [tpc EXCEPT ![t] = "failed"] ELSE tpc
  /\ UNCHANGED <<jsAvailable, streams, consumers, keyLen, subscriptions,
                 handleState, stopCount, tcat, reqVars, ghostVars, auxVars>>

\* An iteration whose disposition does not reach the broker (m.ack() and
\* m.term() are sent without confirmation), followed by the expiry of the
\* delivery's ack wait: the loop goes on, the broker counts the delivery as
\* unacknowledged.
IterationUnanswered(t, m) ==
  /\ tpc[t] = "loop"
  /\ Yields(handleState[t])
  /\ msgs[m].state = "inflight"
  /\ msgs[m].handle = t
  /\ ~respondFails
  /\ \E cbThrows \in CallbackOutcomes(msgs[m].payload) :
       LET d == HandleMessage(msgs[m].payload, cbThrows) IN
       hist' = [hist EXCEPT ![m] = Append(@,
                 [data |-> msgs[m].payload, cbThrows |-> cbThrows,
                  invoked |-> d.invoked, calls |-> d.calls,
                  event |-> d.event,
                  handler |-> HandlerAfterCall(d.invoked, "sync", cbThrows),
                  afterStop |-> FALSE,
                  disp |-> "none", disps |-> d.disps])]
  /\ msgs' = [msgs EXCEPT ![m].state = AfterNoDisposition(msgs[m].deliveries),
                           ![m].handle = 0]
  /\ UNCHANGED <<jsAvailable, streams, consumers, keyLen, subVars, reqVars,
                 ghostVars, auxVars>>

\* An iteration with a callback that does its work before it returns.
Process(t, m) == Iteration(t, m, {"sync"})

\* An iteration with a callback that is an async function.
ProcessAsync(t, m) == Iteration(t, m, {"async"})

\* The promise an async callback returned settles: nobody awaits it, so a
\* rejection reaches no code of the client.
HandlerSettles(m, i, ok) ==
  /\ i \in DOMAIN hist[m]
  /\ hist[m][i].handler = "pending"
  /\ hist' = [hist EXCEPT ![m][i].handler =
                IF ok THEN "resolved" ELSE "rejected"]
  /\ UNCHANGED <<brokerVars, keyLen, subVars, reqVars, ghostVars, auxVars>>

\* ----------------------------------------------------------- cleanup()
\* Variant: cleanup() forgets to empty the list.
CleanupListKept(subs) == subs

\* this.subscriptions after cleanup().
CleanupList(subs) == <<>>

\* Variant: cleanup() closes the connection it was given.
ConnectionAfterCleanupClosed(open) == FALSE

\* The injected connection after cleanup(): cleanup() makes no call on nc.
ConnectionAfterCleanup(open) == open

\* Variant: cleanup() deletes the durable consumers at the broker.
ConsumersAfterCleanupDeleted(cs) == {}

\* The durable consumers at the broker after cleanup(): cleanup() sends the
\* broker no request to delete anything.
ConsumersAfterCleanup(cs) == cs

\* The handles cleanup() calls stop() on.
CleanupStops(subs) == Range(subs)

\* cleanup(): stop every listed handle, empty the list. The history
\* variables are no state of the program; a specification whose claims do
\* not read them takes the step without recording it.
CleanupStep(recorded) ==
  /\ handleState' = [h \in Tasks |->
        IF h \in CleanupStops(subscriptions) THEN "stopped" ELSE handleState[h]]
  /\ stopCount' = [h \in Tasks |->
        stopCount[h] + Cardinality({i \in DOMAIN subscriptions :
                                     subscriptions[i] = h
                                     /\ h \in CleanupStops(subscriptions)})]
  /\ subscriptions' = CleanupList(subscriptions)
  /\ IF recorded
       THEN /\ cleaned' = TRUE
            /\ raced' = raced \cup {t \in Tasks : tpc[t] \in Provisioning}
            /\ listedAtCleanup' = listedAtCleanup \cup Range(subscriptions)
       ELSE UNCHANGED ghostVars
  /\ ncOpen' = ConnectionAfterCleanup(ncOpen)
  /\ consumers' = ConsumersAfterCleanup(consumers)
  /\ UNCHANGED <<jsAvailable, streams, msgs, keyLen, tpc, tcat, reqVars, hist,
                 respondFails, call>>

Cleanup == CleanupStep(TRUE)

\* An iteration whose callback calls cleanup() on the client before it
\* returns or throws: cleanup() runs to its end inside callback(event) (it
\* awaits nothing), then the iteration goes on to m.ack(), or to m.term() in
\* the catch block, with its own handle stopped.
IterationCleansUp(t, m) ==
  /\ tpc[t] = "loop"
  /\ Yields(handleState[t])
  /\ msgs[m].state = "inflight"
  /\ msgs[m].handle = t
  /\ ~respondFails
  /\ Decode(msgs[m].payload).ok
  /\ \E cbThrows \in CallbackOutcomes(msgs[m].payload) :
       LET d == HandleMessage(msgs[m].payload, cbThrows) IN
       /\ hist' = [hist EXCEPT ![m] = Append(@,
                     [data |-> msgs[m].payload, cbThrows |-> cbThrows,
                      invoked |-> d.invoked, calls |-> d.calls,
                      event |-> d.event,
                      handler |-> HandlerAfterCall(d.invoked, "sync", cbThrows),
                      afterStop |-> t \in CleanupStops(subscriptions),
                      disp |-> d.disp, disps |-> d.disps])]
       /\ msgs' = [msgs EXCEPT ![m].state =
                     BrokerAfter(d.disp, msgs[m].deliveries)]
  /\ handleState' = [h \in Tasks |->
        IF h \in CleanupStops(subscriptions) THEN "stopped" ELSE handleState[h]]
  /\ stopCount' = [h \in Tasks |->
        stopCount[h] + Cardinality({i \in DOMAIN subscriptions :
                                     subscriptions[i] = h
                                     /\ h \in CleanupStops(subscriptions)})]
  /\ subscriptions' = CleanupList(subscriptions)
  /\ ncOpen' = ConnectionAfterCleanup(ncOpen)
  /\ consumers' = ConsumersAfterCleanup(consumers)
  /\ UNCHANGED <<jsAvailable, streams, keyLen, tpc, tcat, reqVars,
                 ghostVars, respondFails, call>>

CleanupUnrecorded == CleanupStep(FALSE)

\* ------------------------------------------- the broker and the service
\* The remote service publishes a result of category c.
ServicePublish(m, c, data) ==
  /\ msgs[m].state = "none"
  /\ IF m = 1 THEN TRUE ELSE msgs[m - 1].state # "none"
  /\ msgs' = [msgs EXCEPT ![m] =
       [cat |-> c, payload |-> data,
        state |-> IF jsAvailable /\ CapturedBy("mpc", ResultSubject(c, "w1"))
                  THEN "pending" ELSE "lost",
        deliveries |-> 0, handle |-> 0]]
  /\ UNCHANGED <<jsAvailable, streams, consumers, keyLen, subVars, reqVars,
                 hist, ghostVars, auxVars>>

\* The durable consumer of the message's category hands it to an open pull.
Deliver(m, t) ==
  /\ jsAvailable
  /\ msgs[m].state = "pending"
  /\ DeliveriesLeft(msgs[m].deliveries)
  /\ handleState[t] = "open"
  /\ tcat[t] = msgs[m].cat
  /\ ConsumerExists(msgs[m].cat)
  /\ msgs' = [msgs EXCEPT ![m].state = "inflight", ![m].handle = t,
                           ![m].deliveries = @ + 1]
  /\ UNCHANGED <<jsAvailable, streams, consumers, keyLen, subVars, reqVars,
                 hist, ghostVars, auxVars>>

\* A delivery left without disposition (its pull loop was stopped, or ended
\* on a throw) times out.
AckWaitExpire(m) ==
  /\ msgs[m].state \in {"inflight", "unanswered"}
  /\ IF msgs[m].state = "unanswered" THEN TRUE
     ELSE IF handleState[msgs[m].handle] = "stopped" THEN TRUE
     ELSE tpc[msgs[m].handle] = "failed"
  /\ msgs' = [msgs EXCEPT ![m].state = AfterNoDisposition(msgs[m].deliveries),
                           ![m].handle = 0]
  /\ UNCHANGED <<jsAvailable, streams, consumers, keyLen, subVars, reqVars,
                 hist, ghostVars, auxVars>>

\* From now on the replies of the client cannot be sent: the disposition
\* calls m.ack() and m.term() throw.
RespondBreaks ==
  /\ ~respondFails
  /\ respondFails' = TRUE
  /\ UNCHANGED <<brokerVars, keyLen, subVars, reqVars, hist, ghostVars, call,
                 ncOpen>>

\* JetStream becomes unavailable or available again.
EnvJetStream ==
  /\ jsAvailable' = ~jsAvailable
  /\ UNCHANGED <<streams, consumers, msgs, keyLen, subVars, reqVars, hist,
                 ghostVars, auxVars>>

\* ---------------------------------------------------- request messages
Ops == {"createWallet", "signTransaction", "reshareKeys"}

\* Variant: the identifier is drawn once and used for every call.
UuidDrawnOnce(n) == "u1"

\* uuidv4(): the n-th draw; no two draws give the same identifier.
Uuid(n) == "u" \o ToString(n)

\* A message object is the sequence of its <<key, value>> pairs in
\* insertion order, which is the order JSON.stringify writes them in.
RECURSIVE JsonStringify(_)
JsonStringify(obj) ==
  IF Len(obj) = 0 THEN <<>>
  ELSE <<Head(obj)[1], ":", Head(obj)[2]>> \o JsonStringify(Tail(obj))

Field(obj, key) == (CHOOSE i \in DOMAIN obj : obj[i][1] = key)

ValueOf(obj, key) == obj[Field(obj, key)][2]

\* Variant: the signature also depends on which signer was called before.
Ed25519SignChained(bytes) == <<"ed25519", bytes, call.fn>>

\* ed25519.sign(bytes, privateKeyBytes) for the one key the client holds:
\* a function of the bytes alone (RFC 8032 draws no randomness).
Ed25519Sign(bytes) == <<"ed25519", bytes>>

GenerateKeyMessage(id) == << <<"wallet_id", id>> >>

SignTxMessage(txId) ==
  << <<"key_type", "ed25519">>, <<"wallet_id", "w1">>,
     <<"network_internal_code", "net">>, <<"tx_id", txId>>, <<"tx", "tx">> >>

ResharingMessage(sessionId) ==
  << <<"session_id", sessionId>>, <<"wallet_id", "w1">>,
     <<"node_ids", "n1,n2">>, <<"new_threshold", "2">>,
     <<"key_type", "ed25519">> >>

signGenerateKeyMessage(msg) == Ed25519Sign(<<ValueOf(msg, "wallet_id")>>)

\* Variant: the transaction signer leaves the tx field out of what it signs.
signSignTxMessageNoTx(msg) ==
  Ed25519Sign(JsonStringify(
    << <<"key_type", ValueOf(msg, "key_type")>>,
       <<"wallet_id", ValueOf(msg, "wallet_id")>>,
       <<"network_internal_code", ValueOf(msg, "network_internal_code")>>,
       <<"tx_id", ValueOf(msg, "tx_id")>> >>))

signSignTxMessage(msg) ==
  Ed25519Sign(JsonStringify(
    << <<"key_type", ValueOf(msg, "key_type")>>,
       <<"wallet_id", ValueOf(msg, "wallet_id")>>,
       <<"network_internal_code", ValueOf(msg, "network_internal_code")>>,
       <<"tx_id", ValueOf(msg, "tx_id")>>,
       <<"tx", ValueOf(msg, "tx")>> >>))

\* Variant: the signer encodes the message object as it was handed over.
signResharingMessageAsGiven(msg) == Ed25519Sign(JsonStringify(msg))

signResharingMessage(msg) ==
  Ed25519Sign(JsonStringify(
    << <<"session_id", ValueOf(msg, "session_id")>>,
       <<"node_ids", ValueOf(msg, "node_ids")>>,
       <<"new_threshold", ValueOf(msg, "new_threshold")>>,
       <<"key_type", ValueOf(msg, "key_type")>>,
       <<"wallet_id", ValueOf(msg, "wallet_id")>> >>))

BuildMessage(op, id) ==
  CASE op = "createWallet"    -> GenerateKeyMessage(id)
    [] op = "signTransaction" -> SignTxMessage(id)
    [] op = "reshareKeys"     -> ResharingMessage(id)

SignatureOf(op, msg) ==
  CASE op = "createWallet"    -> signGenerateKeyMessage(msg)
    [] op = "signTransaction" -> signSignTxMessage(msg)
    [] op = "reshareKeys"     -> signResharingMessage(msg)

\* Variant: only the explicit length checks reject a key; the resharing
\* signer signs with whatever it is given.
SignerRejectsExplicitOnly(op, len) == op # "reshareKeys" /\ len # KeyBytes

\* The signer of op throws on a private key of len bytes: the explicit
\* length check of signGenerateKeyMessage and signSignTxMessage, and the
\* length check inside ed25519.sign for signResharingMessage.
SignerRejects(op, len) == len # KeyBytes

\* What a signer hands back: the signature, or a thrown error.
SignResult(op, msg) ==
  IF SignerRejects(op, keyLen) THEN [ok |-> FALSE, sig |-> <<>>]
  ELSE [ok |-> TRUE, sig |-> SignatureOf(op, msg)]

\* msg.signature = signatureBuffer.toString("base64")
WithSignature(msg, sig) == Append(msg, <<"signature", <<"base64", sig>> >>)

\* ------------------------------------------------- request operations
\* Variant: createWallet publishes on core NATS directly.
UsesJetStreamSignOnly(op) == op = "signTransaction"

\* The operations whose body tries the JetStream path before core NATS.
UsesJetStream(op) == op \in {"createWallet", "signTransaction"}

\* The subject of js.publish(...) in the try block.
DurableSubject(op, id) ==
  IF op = "createWallet" THEN KeygenRequestSubject
  ELSE SigningRequestSubject(id)

\* Variant: the fallback publishes on the legacy request topics.
CoreSubjectLegacy(op, id) ==
  CASE op = "createWallet"    -> <<"mpc:generate">>
    [] op = "signTransaction" -> <<"mpc:sign">>
    [] op = "reshareKeys"     -> RESHARE_REQUEST

\* The subject of nc.publish(...) in the catch block, and of reshareKeys.
CoreSubject(op, id) ==
  CASE op = "createWallet"    -> KeygenRequestSubject
    [] op = "signTransaction" -> SigningRequestSubject(id)
    [] op = "reshareKeys"     -> RESHARE_REQUEST

\* Variant: the availability check announces the fallback itself as well.
CheckFailLogWarn ==
  <<"error:JetStream is not available",
    "warn:JetStream not available, falling back to core NATS">>

\* What checkJetStreamAvailability logs when it catches.
CheckFailLog == <<"error:JetStream is not available">>

\* What the catch block of createWallet/signTransaction logs.
FallbackLog == <<"warn:JetStream not available, falling back to core NATS",
                 "log:request sent via core NATS">>

\* nc.publish(subj, jc.encode(r.msg)) followed by the return of the id.
CorePublish(r, subj) ==
  [r EXCEPT !.core = TRUE, !.csubj = subj, !.cpay = r.msg,
            !.stored = @ + (IF jsAvailable /\ Captured(subj) THEN 1 ELSE 0),
            !.ret = "id", !.rv = r.id, !.pc = "done"]

\* The catch block: warn, publish on core NATS, return the id.
Catch(r) ==
  CorePublish([r EXCEPT !.log = @ \o FallbackLog], CoreSubject(r.op, r.id))

\* A step of the try block throws at the given stage.
Fail(r, stage) == Catch([r EXCEPT !.dur = "failed", !.failAt = stage])

\* Variant: the operation draws a fresh id whatever the caller supplied.
CorrelationIdAlwaysFresh(supplied, uuid) == uuid

\* const id = walletId || uuidv4() (sessionId in reshareKeys; signTransaction
\* takes no id and always draws one).
CorrelationId(supplied, uuid) == IF supplied = "" THEN uuid ELSE supplied

\* The ids returned so far by createWallet() calls without an id, once the
\* request r has taken its step.
IssuedAfter(r) ==
  IF r.pc = "done" /\ r.ret = "id" /\ r.op = "createWallet" /\ r.supplied = ""
    THEN Append(issued, r.rv)
  ELSE issued

\* The call of a request operation up to its first broker request: the id,
\* the message, the signature; reshareKeys publishes right away.
ReqCall(op, supplied) ==
  /\ req.pc \in {"idle", "done"}
  /\ op = "signTransaction" => supplied = ""
  /\ LET fresh == supplied = ""
         id    == CorrelationId(supplied, Uuid(uuidCount + 1))
         msg   == BuildMessage(op, id)
         r0    == [IdleReq EXCEPT !.op = op, !.id = id, !.late = cleaned,
                                  !.supplied = supplied]
         r1    == [r0 EXCEPT !.msg = WithSignature(msg, SignatureOf(op, msg))]
     IN
     /\ fresh => uuidCount < MaxUuid
     /\ uuidCount' = IF fresh THEN uuidCount + 1 ELSE uuidCount
     /\ req' = IF SignerRejects(op, keyLen)
                 THEN [r0 EXCEPT !.ret = "throw", !.pc = "done"]
               ELSE IF UsesJetStream(op)
                 THEN [r1 EXCEPT !.pc = "jsm1", !.dur = "trying"]
               ELSE CorePublish([r1 EXCEPT !.log = <<"log:request sent">>],
                                CoreSubject(op, id))
  /\ issued' = IssuedAfter(req')
  /\ UNCHANGED <<brokerVars, keyLen, subVars, hist, ghostVars, auxVars>>

\* checkJetStreamAvailability: await nc.jetstreamManager()
ReqJsm1 ==
  /\ req.pc = "jsm1"
  /\ req' = IF jsAvailable THEN [req EXCEPT !.pc = "acct", !.rt = @ + 1]
            ELSE Fail([req EXCEPT !.rt = @ + 1, !.log = @ \o CheckFailLog],
                      "availability")
  /\ issued' = IssuedAfter(req')
  /\ UNCHANGED <<brokerVars, keyLen, subVars, uuidCount, hist, ghostVars, auxVars>>

\* checkJetStreamAvailability: await jsm.getAccountInfo()
ReqAcct ==
  /\ req.pc = "acct"
  /\ req' = IF jsAvailable THEN [req EXCEPT !.pc = "jsm2", !.rt = @ + 1]
            ELSE Fail([req EXCEPT !.rt = @ + 1, !.log = @ \o CheckFailLog],
                      "availability")
  /\ issued' = IssuedAfter(req')
  /\ UNCHANGED <<brokerVars, keyLen, subVars, uuidCount, hist, ghostVars, auxVars>>

\* ensureStreamsExist: const jsm = await nc.jetstreamManager()
ReqJsm2 ==
  /\ req.pc = "jsm2"
  /\ req' = IF jsAvailable THEN [req EXCEPT !.pc = "kinfo", !.rt = @ + 1]
            ELSE Fail([req EXCEPT !.rt = @ + 1], "manager")
  /\ issued' = IssuedAfter(req')
  /\ UNCHANGED <<brokerVars, keyLen, subVars, uuidCount, hist, ghostVars, auxVars>>

ReqStream(pc) == IF pc \in {"kinfo", "kadd"} THEN "mpc-keygen" ELSE "mpc-signing"

ReqStreamSubjects(pc) ==
  IF pc \in {"kinfo", "kadd"} THEN {KeygenRequestFilter}
  ELSE {SigningRequestFilter}

\* ensureStreamsExist: await jsm.streams.info(<name>)
ReqStreamInfo ==
  /\ req.pc \in {"kinfo", "sinfo"}
  /\ req' = [req EXCEPT !.rt = @ + 1, !.pc =
       IF jsAvailable /\ StreamExists(ReqStream(req.pc))
         THEN (IF req.pc = "kinfo" THEN "sinfo" ELSE "pub")
         ELSE (IF req.pc = "kinfo" THEN "kadd" ELSE "sadd")]
  /\ issued' = IssuedAfter(req')
  /\ UNCHANGED <<brokerVars, keyLen, subVars, uuidCount, hist, ghostVars, auxVars>>

\* ensureStreamsExist: await jsm.streams.add({name, subjects, ...})
ReqStreamAdd ==
  /\ req.pc \in {"kadd", "sadd"}
  /\ \E o \in AddStreamOutcomes(ReqStream(req.pc), ReqStreamSubjects(req.pc)) :
       LET r    == [req EXCEPT !.rt = @ + 1]
           next == IF req.pc = "kadd" THEN "sinfo" ELSE "pub"
       IN
       /\ streams' = StreamsAfterAdd(ReqStream(req.pc),
                                     ReqStreamSubjects(req.pc), o)
       /\ req' = CASE o.ok ->
                       [r EXCEPT !.pc = next,
                                 !.log = Append(@, "log:created stream")]
                   [] IsOverlapError(o) ->
                       [r EXCEPT !.pc = next,
                                 !.log = Append(@, "warn:stream subjects overlap; proceeding")]
                   [] OTHER -> Fail(r, "provision")
  /\ issued' = IssuedAfter(req')
  /\ UNCHANGED <<jsAvailable, consumers, msgs, keyLen, subVars, uuidCount,
                 hist, ghostVars, auxVars>>

\* Outcomes of js.publish(subj, ...): stored and acknowledged, stored with the
\* acknowledgement lost, or rejected.
PublishOutcomes(subj) ==
  IF jsAvailable /\ Captured(subj) THEN {"ok", "lostack"} ELSE {"fail"}

\* await js.publish(<subject>, jc.encode(msg))
ReqPublish ==
  /\ req.pc = "pub"
  /\ \E o \in PublishOutcomes(DurableSubject(req.op, req.id)) :
       LET r == [req EXCEPT !.rt = @ + 1,
                            !.dsubj = DurableSubject(req.op, req.id),
                            !.dpay = req.msg,
                            !.stored = @ + (IF o = "fail" THEN 0 ELSE 1)]
       IN req' = IF o = "ok"
                   THEN [r EXCEPT !.dur = "ok", !.ret = "id", !.rv = r.id,
                                  !.pc = "done",
                                  !.log = Append(@, "log:request sent via JetStream")]
                 ELSE Fail(r, "publish")
  /\ issued' = IssuedAfter(req')
  /\ UNCHANGED <<brokerVars, keyLen, subVars, uuidCount, hist, ghostVars, auxVars>>

\* ------------------------------------------- create and the signers
\* MpciumClient.create(o) called on the key file f.
CreateCall(o, f) ==
  /\ call' = [fn |-> "create", options |-> o, file |-> f,
              result |-> Create(o, f)]
  /\ UNCHANGED <<brokerVars, keyLen, subVars, reqVars, hist, ghostVars,
                 respondFails, ncOpen>>

\* The orders in which the fields of a message object can have been set.
FieldOrders(n) ==
  {p \in [1..n -> 1..n] : \A i, j \in 1..n : p[i] = p[j] => i = j}

Reordered(msg, p) == [i \in 1..Len(msg) |-> msg[p[i]]]

\* signResharingMessage(msg, this.privateKey) called on a message object
\* whose fields were set in the order p; ed25519.sign rejects a private key
\* that is not KeyBytes long.
SignResharingCall(sessionId, p) ==
  LET msg == Reordered(ResharingMessage(sessionId), p) IN
  /\ call' = [fn |-> "signResharingMessage", msg |-> msg,
              result |-> SignResult("reshareKeys", msg)]
  /\ UNCHANGED <<brokerVars, keyLen, subVars, reqVars, hist, ghostVars,
                 respondFails, ncOpen>>

\* signGenerateKeyMessage(msg, privateKey) called on its own.
SignGenerateKeyCall(walletId) ==
  LET msg == GenerateKeyMessage(walletId) IN
  /\ call' = [fn |-> "signGenerateKeyMessage", msg |-> msg,
              result |-> SignResult("createWallet", msg)]
  /\ UNCHANGED <<brokerVars, keyLen, subVars, reqVars, hist, ghostVars,
                 respondFails, ncOpen>>

\* signSignTxMessage(msg, privateKey) called on a message object whose fields
\* were set in the order p.
SignSignTxCall(txId, p) ==
  LET msg == Reordered(SignTxMessage(txId), p) IN
  /\ call' = [fn |-> "signSignTxMessage", msg |-> msg,
              result |-> SignResult("signTransaction", msg)]
  /\ UNCHANGED <<brokerVars, keyLen, subVars, reqVars, hist, ghostVars,
                 respondFails, ncOpen>>

\* ------------------------------------------------------ specifications
\* The steps of the subscribe calls T.
TaskNext(T) ==
  \/ \E t \in T, c \in Cats : SubscribeCall(t, c)
  \/ \E t \in T : SubJsm(t)
  \/ \E t \in T : SubStreamInfo(t)
  \/ \E t \in T : SubStreamAdd(t)
  \/ \E t \in T : SubConsumerInfo(t)
  \/ \E t \in T : SubConsumerAdd(t)
  \/ \E t \in T : SubConsumerGet(t)
  \/ \E t \in T : SubConsume(t)
  \/ \E t \in T : LoopExit(t)

\* The result messages: publication, delivery, handling, expiry.
MsgNext(T) ==
  \/ \E t \in T, m \in Msgs : Process(t, m)
  \/ \E m \in Msgs, c \in Cats, d \in Payloads : ServicePublish(m, c, d)
  \/ \E m \in Msgs, t \in T : Deliver(m, t)
  \/ \E m \in Msgs : AckWaitExpire(m)

ReqNext ==
  \/ \E op \in Ops, supplied \in {"", "w1"} : ReqCall(op, supplied)
  \/ ReqJsm1
  \/ ReqAcct
  \/ ReqJsm2
  \/ ReqStreamInfo
  \/ ReqStreamAdd
  \/ ReqPublish

\* The stand-alone calls of create and of the resharing signer.
UtilNext ==
  \/ \E o \in CreateOptions, f \in KeyFiles : CreateCall(o, f)
  \/ \E sessionId \in {"w1", "s1"},
        p \in FieldOrders(Len(ResharingMessage("s1"))) :
          SignResharingCall(sessionId, p)

\* The three signers called on their own.
SignNext ==
  \/ \E walletId \in {"w1", "w2"} : SignGenerateKeyCall(walletId)
  \/ \E txId \in {"t1", "t2"}, p \in FieldOrders(Len(SignTxMessage("t1"))) :
        SignSignTxCall(txId, p)
  \/ \E sessionId \in {"w1", "s1"},
        p \in FieldOrders(Len(ResharingMessage("s1"))) :
          SignResharingCall(sessionId, p)

\* The iterations on async callbacks and the settling of their promises.
AsyncNext(T) ==
  \/ \E t \in T, m \in Msgs : ProcessAsync(t, m)
  \/ \E m \in Msgs, i \in 1..MaxDeliver, ok \in BOOLEAN :
        HandlerSettles(m, i, ok)

\* The iterations whose disposition is lost on the way to the broker.
UnansweredNext(T) == \E t \in T, m \in Msgs : IterationUnanswered(t, m)

\* The iterations whose callback calls cleanup().
ReentrantNext(T) == \E t \in T, m \in Msgs : IterationCleansUp(t, m)

\* Everything together, for the subscribe calls LoopTasks.
Next ==
  TaskNext(LoopTasks) \/ MsgNext(LoopTasks) \/ ReqNext \/ Cleanup
    \/ EnvJetStream \/ RespondBreaks \/ UtilNext \/ SignNext
    \/ AsyncNext(LoopTasks) \/ UnansweredNext(LoopTasks)
    \/ ReentrantNext(LoopTasks)

Spec == Init /\ [][Next]_vars

\* One subscribe call.
MixTasks == {1}

\* No request in flight: a valid key, no third-party request stream.
SubInit ==
  Init /\ keyLen = KeyBytes /\ streams["ext"] # {KeygenRequestFilter}

\* The pull loops: subscribe calls LoopTasks, result messages, cleanup()
\* (without its history, which no claim about the loops reads).
LoopNext ==
  TaskNext(LoopTasks) \/ MsgNext(LoopTasks) \/ CleanupUnrecorded
    \/ EnvJetStream

LoopSpec == SubInit /\ [][LoopNext]_vars

\* The broker delivers what is deliverable and a pull loop handles what it
\* was handed.
LoopFairSpec ==
  /\ LoopSpec
  /\ WF_vars(\E m \in Msgs, t \in LoopTasks : Deliver(m, t))
  /\ WF_vars(\E t \in LoopTasks, m \in Msgs : Process(t, m))

\* The pull loops with callbacks of both kinds, on a broker that stays
\* available.
AsyncSpecNext ==
  TaskNext(LoopTasks) \/ MsgNext(LoopTasks) \/ AsyncNext(LoopTasks)
    \/ CleanupUnrecorded

AsyncInit == SubInit /\ jsAvailable

AsyncSpec == AsyncInit /\ [][AsyncSpecNext]_vars

\* The pull loop of one subscribe call; the broker delivers what is
\* deliverable and the loop handles what it was handed.
OneLoopNext ==
  TaskNext(MixTasks) \/ MsgNext(MixTasks) \/ CleanupUnrecorded
    \/ EnvJetStream

OneLoopFairSpec ==
  /\ SubInit
  /\ [][OneLoopNext]_vars
  /\ WF_vars(\E m \in Msgs, t \in MixTasks : Deliver(m, t))
  /\ WF_vars(\E t \in MixTasks, m \in Msgs : Process(t, m))

\* The pull loops on a broker that stays available, with callbacks that may
\* call cleanup().
ReentrantSpecNext ==
  TaskNext(LoopTasks) \/ MsgNext(LoopTasks) \/ ReentrantNext(LoopTasks)
    \/ CleanupUnrecorded

ReentrantSpec == AsyncInit /\ [][ReentrantSpecNext]_vars

\* One pull loop on a broker that stays available and that some
\* dispositions do not reach.
RedeliverNext ==
  TaskNext(MixTasks) \/ MsgNext(MixTasks) \/ UnansweredNext(MixTasks)
    \/ CleanupUnrecorded

RedeliverSpec == AsyncInit /\ [][RedeliverNext]_vars

\* The subscription list: subscribe calls Tasks and cleanup(), no messages.
ListNext == TaskNext(Tasks) \/ Cleanup \/ EnvJetStream

ListSpec == SubInit /\ [][ListNext]_vars

\* The request operations and cleanup(), with no subscription.
ReqSpecNext == ReqNext \/ Cleanup \/ EnvJetStream

ReqSpec == Init /\ [][ReqSpecNext]_vars

\* Subscribe calls racing on a broker that stays available: a call whose
\* query failed has observed the resource absent.
RaceNext == TaskNext(Tasks) \/ Cleanup

RaceInit == SubInit /\ jsAvailable

RaceSpec == RaceInit /\ [][RaceNext]_vars

\* The pull loops on a broker that stays available, with the replies of the
\* client failing from some point on.
ReplyNext ==
  TaskNext(LoopTasks) \/ MsgNext(LoopTasks) \/ CleanupUnrecorded
    \/ RespondBreaks

ReplySpec == RaceInit /\ [][ReplyNext]_vars

\* create and the resharing signer, called on their own.
UtilSpec == Init /\ [][UtilNext]_vars

\* Request operations called on a client that has made one subscribe call.
MixNext == TaskNext(MixTasks) \/ ReqNext \/ CleanupUnrecorded

MixSpec == Init /\ [][MixNext]_vars

\* The signers on their own while the broker comes and goes.
SignSpecNext == SignNext \/ EnvJetStream

SignSpec == Init /\ [][SignSpecNext]_vars

\* ============================================================== claims
Deliveries == {<<m, i>> \in Msgs \X (1..MaxDeliver) : i \in DOMAIN hist[m]}

\* C1: in every result pull loop, a delivery that decodes and whose callback
\* throws is negative-acked (never acked, never terminated).
C1_CallbackThrowNaks ==
  \A d \in Deliveries :
    LET e == hist[d[1]][d[2]] IN
    (e.data.wellFormed /\ e.invoked /\ e.cbThrows) => e.disp = "nak"

\* C2: a delivery whose payload fails to decode is terminated and the
\* callback is not invoked for it.
C2_DecodeFailureTerminates ==
  \A d \in Deliveries :
    LET e == hist[d[1]][d[2]] IN
    ~e.data.wellFormed => (e.disp = "term" /\ ~e.invoked)

C2_Witness ==
  \E m \in Msgs :
    /\ hist[m] # <<>>
    /\ ~hist[m][1].data.wellFormed
    /\ msgs[m].state = "termed"

\* C3: a delivery is acked if and only if it decoded and the callback, invoked
\* with its event, returned without throwing.
C3_AckIffSuccess ==
  \A d \in Deliveries :
    LET e == hist[d[1]][d[2]] IN
    (e.disp = "ack") <=>
      (e.data.wellFormed /\ e.invoked /\ e.event = e.data.body /\ ~e.cbThrows)

C3_Witness ==
  \E m \in Msgs :
    /\ hist[m] # <<>>
    /\ hist[m][Len(hist[m])].disp = "ack"
    /\ hist[m][Len(hist[m])].invoked
    /\ msgs[m].state = "acked"

\* The first delivery of m decoded and its callback threw (one delivery made,
\* so the redelivery bound MaxDeliver is not exhausted).
FirstThrew(m) ==
  /\ Len(hist[m]) >= 1
  /\ hist[m][1].invoked
  /\ hist[m][1].cbThrows

\* A pull loop of the message's category is running.
PullOpen(m) ==
  \E t \in LoopTasks :
    tpc[t] = "loop" /\ handleState[t] = "open" /\ tcat[t] = msgs[m].cat

\* C4: after the callback threw on a delivery with the redelivery bound not
\* exhausted, the message is eventually delivered again and the callback
\* invoked again with an equal event (unless the pull loop is stopped or
\* JetStream goes away meanwhile).
C4_RedeliveredAfterThrow ==
  \A m \in Msgs :
    FirstThrew(m) ~>
      \/ /\ Len(hist[m]) >= 2
         /\ hist[m][2].invoked
         /\ hist[m][2].event = hist[m][1].event
      \/ ~PullOpen(m)
      \/ ~jsAvailable

\* C5: when cleanup() ran while a subscribe call was still provisioning, no
\* pull loop of that call is open once its setup has finished.
C5_NoOpenLoopAfterRacedCleanup ==
  \A t \in Tasks :
    (t \in raced /\ tpc[t] = "loop") => handleState[t] = "stopped"

\* C6: every handle that was in the subscription list at a cleanup() has
\* been stopped exactly once, no handle is ever stopped twice, and a handle
\* still listed has not been stopped.
C6_StoppedExactlyOnce ==
  \A h \in Tasks :
    /\ stopCount[h] <= 1
    /\ h \in listedAtCleanup => (stopCount[h] = 1 /\ handleState[h] = "stopped")
    /\ h \in Range(subscriptions) =>
         (stopCount[h] = 0 /\ handleState[h] = "open")

\* Two handles stopped by two different cleanup() calls.
C6_Witness ==
  \E h1, h2 \in Tasks :
    /\ h1 # h2
    /\ h1 \in listedAtCleanup
    /\ h2 \in listedAtCleanup
    /\ h2 \in raced
    /\ stopCount[h1] = 1
    /\ stopCount[h2] = 1

\* C7: a request operation called after cleanup() is rejected: it publishes
\* nothing, on either path, and does not return an id.
C7_RejectedAfterCleanup ==
  req.late => (~req.core /\ req.dur = "none" /\ req.ret # "id")

\* C8: when the durable path of createWallet or signTransaction fails, the
\* request is published on core NATS on the subject and with the signed
\* payload of the durable attempt, and the id is returned.
C8_FallbackSameSubjectAndPayload ==
  (req.op \in {"createWallet", "signTransaction"} /\ req.dur = "failed") =>
    /\ req.core
    /\ req.csubj = DurableSubject(req.op, req.id)
    /\ req.cpay = req.msg
    /\ req.dsubj # <<>> => (req.dsubj = req.csubj /\ req.dpay = req.cpay)
    /\ req.ret = "id"
    /\ req.pc = "done"

\* The durable publish itself was attempted and failed.
C8_Witness ==
  /\ req.op = "signTransaction"
  /\ req.failAt = "publish"
  /\ req.dsubj # <<>>
  /\ req.core
  /\ req.ret = "id"

DegradationWarning == "warn:JetStream not available, falling back to core NATS"

CountIn(log, line) == Cardinality({i \in DOMAIN log : log[i] = line})

C10_DurableFirstAll == req.core => req.dur = "failed"

\* C10 amended: a best-effort publish by createWallet or signTransaction
\* happens only in a step before which the durable attempt for that same
\* request was under way and after which it has failed; reshareKeys publishes
\* best-effort without any durable attempt.
C10_DurableFirst ==
  [][(req'.core /\ req' # req) =>
       IF req'.op \in {"createWallet", "signTransaction"}
         THEN /\ req.dur = "trying"
              /\ req.op = req'.op
              /\ req.id = req'.id
              /\ req'.dur = "failed"
         ELSE req'.dur = "none"]_vars

C10_Witness ==
  /\ req.op = "createWallet"
  /\ req.core
  /\ req.dur = "failed"

\* C11: a create attempt for the stream or for a durable consumer that a
\* subscribe call makes after it observed the resource absent, and that finds
\* the resource created meanwhile by another subscribe call, succeeds: the
\* call goes on to its next provisioning step instead of failing.
C11_RacingCreatesSucceed ==
  [][\A t \in Tasks :
       /\ (tpc[t] = "sadd" /\ StreamExists("mpc") /\ tpc'[t] # "sadd")
            => tpc'[t] = "cinfo"
       /\ (tpc[t] = "cadd" /\ ConsumerExists(tcat[t]) /\ tpc'[t] # "cadd")
            => tpc'[t] = "get"]_vars

\* The stream and the durable consumer of category c exist as a provisioning
\* run with the arguments of that category creates them.
ProvisionedFor(c) ==
  /\ streams["mpc"] = {ResultFilter(c)}
  /\ ConsumerOf(c) \in consumers

\* C12: with the stream and the consumer in place from a first provisioning
\* run, no step that a provisioning run with the same arguments takes on the
\* reachable broker raises, and none changes the broker's streams or consumers.
C12_SecondProvisioningIdempotent ==
  [][\A t \in Tasks :
       (/\ tpc[t] \in Provisioning
        /\ tpc'[t] # tpc[t]
        /\ jsAvailable
        /\ ProvisionedFor(tcat[t]))
       => (/\ tpc'[t] # "failed"
           /\ streams' = streams
           /\ consumers' = consumers)]_vars

\* Two calls of one category have gone through provisioning, one after the
\* other, and both pulls are open on the one stream and the one consumer.
C12_Witness ==
  \E t, u \in Tasks :
    /\ t # u
    /\ tcat[t] = tcat[u]
    /\ tpc[t] = "loop"
    /\ tpc[u] = "loop"
    /\ subscriptions = <<u, t>>
    /\ ProvisionedFor(tcat[t])
    /\ Cardinality(consumers) = 1

\* C13: when the creation of the result stream or of the durable consumer
\* fails for a reason other than "already exists / subjects overlap", the
\* subscribe operation reports the failure to its caller.
C13_ProvisionErrorPropagated ==
  [][\A t \in Tasks :
       (tpc[t] \in {"sadd", "cadd"} /\ tpc'[t] = "failed")
       => SubscribeReturn(t)' = "throw"]_vars

\* C14: the categories are independent of each other: whatever the subscribe
\* calls of the other categories did, a pull loop that is open has its
\* category's result subject captured by the stream it pulls from, so that it
\* receives the results published for it.
C14_CategoriesIndependent ==
  \A t \in Tasks :
    (tpc[t] = "loop" /\ handleState[t] = "open")
    => CapturedBy("mpc", ResultSubject(tcat[t], "w1"))

\* C15: a pull loop that was opened ends only once cleanup() has stopped its
\* handle; handling a message never ends it, whether decoding, the callback
\* or the ack/terminate call fails.
C15_LoopEndsOnlyOnStop ==
  [][\A t \in Tasks :
       (tpc[t] = "loop" /\ tpc'[t] # "loop")
       => (handleState[t] = "stopped" /\ stopCount[t] >= 1)]_vars

\* C16: create constructs no client from a key file whose key is not exactly
\* KeyBytes long, on the plaintext and on the encrypted loading path alike.
C16_CreateRequiresKeyBytes ==
  call.fn = "create" =>
    /\ HexDecodeLen(call.file.chars) # KeyBytes => ~call.result.ok
    /\ call.result.ok => call.result.keyLen = KeyBytes

\* C17: create fails, calling no loader, when the encrypted flag is set or the
\* key path ends in ".age" and no passphrase is given; and it calls the
\* plaintext loader exactly when neither the flag is set nor the path ends
\* in ".age".
C17_EncryptedNeedsPassphrase ==
  call.fn = "create" =>
    LET o == call.options
        r == call.result
        ageExt == Len(o.keyPath) >= 2 /\ o.keyPath[Len(o.keyPath)] = "age"
    IN
    /\ ((o.encrypted \/ ageExt) /\ o.password \in {NoPassword, ""})
         => (~r.ok /\ r.loader = "none")
    /\ r.loader = "plain" <=> (~o.encrypted /\ ~ageExt)

\* The extension alone marks the key as encrypted and no passphrase is given.
C17_Witness ==
  /\ call.fn = "create"
  /\ ~call.options.encrypted
  /\ call.options.keyPath = <<"initiator", "key", "age">>
  /\ call.options.password = NoPassword
  /\ call.file.loadable
  /\ ~call.result.ok

\* The field of a request message that carries its correlation id.
CorrelationField(op) ==
  CASE op = "createWallet"    -> "wallet_id"
    [] op = "signTransaction" -> "tx_id"
    [] op = "reshareKeys"     -> "session_id"

\* The request messages of the current call that reached the broker.
PublishedPayloads == {req.dpay, req.cpay} \ {<<>>}

Covers(bytes, key, value) ==
  \/ bytes = <<value>>
  \/ \E j \in DOMAIN bytes :
       /\ j + 2 \in DOMAIN bytes
       /\ bytes[j] = key
       /\ bytes[j + 1] = ":"
       /\ bytes[j + 2] = value

\* C19: every request message that reached the broker, on the durable or on
\* the best-effort path, has the signature as its last field, set once, and
\* that signature is computed over every other field of the message and not
\* over the signature field.
C19_PublishedMessagesSigned ==
  \A pay \in PublishedPayloads :
    LET n     == Len(pay)
        bytes == pay[n][2][2][2]
    IN
    /\ n >= 2
    /\ pay[n][1] = "signature"
    /\ \A i \in 1..(n - 1) : pay[i][1] # "signature"
    /\ pay[n][2] = <<"base64", Ed25519Sign(bytes)>>
    /\ \A i \in 1..(n - 1) : Covers(bytes, pay[i][1], pay[i][2])
    /\ \A j \in DOMAIN bytes : bytes[j] # "signature"

\* A signed signTransaction request stored by the durable publish.
C19_Witness ==
  /\ req.op = "signTransaction"
  /\ req.dur = "ok"
  /\ req.dpay # <<>>
  /\ req.dpay = req.msg
  /\ req.stored = 1

\* The order of the fields in the bytes a resharing request is signed over.
ReshareSignOrder ==
  <<"session_id", "node_ids", "new_threshold", "key_type", "wallet_id">>

\* C20: the bytes signed for a resharing request list the fields in the order
\* session_id, node_ids, new_threshold, key_type, wallet_id, each with the
\* value the message holds for it, in whatever order the fields of the message
\* object handed to the signer were set.
C20_ReshareSignedInFixedOrder ==
  (call.fn = "signResharingMessage" /\ call.result.ok) =>
    LET bytes == call.result.sig[2]
        n     == Len(ReshareSignOrder)
    IN
    /\ Len(bytes) = 3 * n
    /\ \A i \in 1..n :
         /\ bytes[3 * i - 2] = ReshareSignOrder[i]
         /\ bytes[3 * i - 1] = ":"
         /\ bytes[3 * i] = ValueOf(call.msg, ReshareSignOrder[i])

\* The signer was handed the message as reshareKeys builds it, whose field
\* order differs from the signed one.
C20_Witness ==
  /\ call.fn = "signResharingMessage"
  /\ call.result.ok
  /\ call.msg = ResharingMessage("s1")
  /\ call.msg[2][1] = "wallet_id"
  /\ call.result.sig[2][4] = "node_ids"

\* C21: two calls of the same signer with the same field values and the same
\* key give the same signature, whatever was called before and whatever the
\* broker did in between.
SignerFns ==
  {"signGenerateKeyMessage", "signSignTxMessage", "signResharingMessage"}

FieldsOf(msg) == {msg[i] : i \in DOMAIN msg}

C22_SigningFailureIsLocal ==
  [][(req' # req /\ keyLen # KeyBytes)
       => /\ req'.pc = "done"
          /\ req'.ret = "throw"
          /\ ~req'.core
          /\ req'.dur = "none"
          /\ req'.stored = 0
          /\ req'.dpay = <<>>
          /\ req'.cpay = <<>>
          /\ subVars' = subVars]_vars

\* reshareKeys has thrown on a client that has an open pull loop.
C22_Witness ==
  /\ keyLen # KeyBytes
  /\ req.op = "reshareKeys"
  /\ req.ret = "throw"
  /\ \E t \in Tasks : tpc[t] = "loop" /\ handleState[t] = "open"

\* C23: a request operation that has returned its correlation id awaited at
\* most one broker request between call and return.
C23_AtMostOneRoundTrip ==
  (req.pc = "done" /\ req.ret = "id") => req.rt <= 1

C25_ConnectionNeverClosed == ncOpen

\* cleanup() has stopped a handle and a request operation has returned.
C25_Witness ==
  /\ ncOpen
  /\ \E t \in Tasks : stopCount[t] >= 1
  /\ req.pc = "done"

\* C26: the ids createWallet() returned when it was called without an id are
\* pairwise distinct.
C26_GeneratedIdsDistinct ==
  \A i, j \in DOMAIN issued : issued[i] = issued[j] => i = j

\* Two calls of createWallet() without an id have returned.
C26_Witness == Len(issued) >= 2

\* C27: a stream creation the broker rejects for overlapping subjects lets
\* provisioning go on to its next step, in a subscribe operation and in
\* ensureStreamsExist alike; a creation that is rejected for any other reason
\* (the stream is not there afterwards with the subjects asked for) ends the
\* provisioning with a failure.
OverlapRejects(name, subjects) ==
  AddStreamOutcomes(name, subjects) = {AddOverlap}

C27_OnlyOverlapTolerated ==
  [][/\ \A t \in Tasks :
          (tpc[t] = "sadd" /\ tpc'[t] # "sadd") =>
            IF OverlapRejects("mpc", {ResultFilter(tcat[t])})
              THEN tpc'[t] = "cinfo" /\ streams' = streams
            ELSE IF streams'["mpc"] # {ResultFilter(tcat[t])}
              THEN tpc'[t] = "failed"
            ELSE tpc'[t] = "cinfo"
     /\ (req.pc \in {"kadd", "sadd"} /\ req' # req) =>
          IF OverlapRejects(ReqStream(req.pc), ReqStreamSubjects(req.pc))
            THEN /\ req'.pc = (IF req.pc = "kadd" THEN "sinfo" ELSE "pub")
                 /\ streams' = streams
          ELSE IF streams'[ReqStream(req.pc)] # ReqStreamSubjects(req.pc)
            THEN req'.failAt = "provision"
          ELSE req'.pc = (IF req.pc = "kadd" THEN "sinfo" ELSE "pub")]_vars

\* A subscribe operation has gone past a creation of stream "mpc" that was
\* rejected for overlapping subjects.
C27_Witness ==
  \E t \in Tasks :
    /\ tpc[t] = "cinfo"
    /\ ~StreamExists("mpc")
    /\ OverlapRejects("mpc", {ResultFilter(tcat[t])})

\* C28: on a broker that stays available, a subscribe operation that went on
\* after its creation of stream "mpc" was rejected for overlapping subjects
\* (it is at the consumer steps and no stream "mpc" exists) does not fail
\* there: it goes on to open its pull loop.
C28_OverlapStillSubscribes ==
  [][\A t \in Tasks :
       (tpc[t] \in {"cinfo", "cadd", "get"} /\ ~StreamExists("mpc"))
         => tpc'[t] # "failed"]_vars

\* C29: once the provisioning of a subscribe operation has completed without
\* error, some subject filter of stream "mpc" captures the filter of the
\* operation's category.
ProvisioningCompleted(t) == tpc[t] \in {"consume", "loop", "done"}

C29_StreamCapturesCategory ==
  \A t \in Tasks :
    ProvisioningCompleted(t)
      => \E f \in streams["mpc"] : SubjectMatches(f, ResultFilter(tcat[t]))

\* C30: when a request operation reaches its durable publish and the request
\* stream ensureStreamsExist provisions for it exists, that stream captures
\* the subject of the publish.
RequestStream(op) ==
  IF op = "createWallet" THEN "mpc-keygen" ELSE "mpc-signing"

C30_DurableSubjectCaptured ==
  (req.pc = "pub" /\ StreamExists(RequestStream(req.op)))
    => CapturedBy(RequestStream(req.op), DurableSubject(req.op, req.id))

\* C31: the broker stores at most one copy of the request message of a call of
\* createWallet or signTransaction, the durable publish and the fallback taken
\* together.
C31_AtMostOneCopyStored ==
  req.op \in {"createWallet", "signTransaction"} => req.stored <= 1

\* C32: for every handled delivery of a result message at most one
\* disposition was issued, and that one is ack, negative-ack or terminate.
C32_OneDispositionPerDelivery ==
  \A m \in Msgs : \A i \in DOMAIN hist[m] :
    /\ Len(hist[m][i].disps) <= 1
    /\ \A k \in DOMAIN hist[m][i].disps :
         hist[m][i].disps[k] \in {"ack", "nak", "term"}

\* A delivery was handled by a callback that returned, and acked.
C32_Witness ==
  \E m \in Msgs : \E i \in DOMAIN hist[m] :
    ~hist[m][i].cbThrows /\ hist[m][i].disps = <<"ack">>

\* C33: a delivery that was acked had its event handled to the end without
\* failure, whether the callback did its work before returning or is an async
\* function: no acked delivery has a handler that is still at work or that
\* failed.
C33_AckAfterHandlerCompletes ==
  \A m \in Msgs : \A i \in DOMAIN hist[m] :
    hist[m][i].disp = "ack" => hist[m][i].handler \in {"returned", "resolved"}

\* C34: over all deliveries and redeliveries of a result message, the callback
\* was invoked at most MaxDeliver times.
RECURSIVE CallsIn(_)
CallsIn(h) == IF Len(h) = 0 THEN 0 ELSE Head(h).calls + CallsIn(Tail(h))

C34_CallbackAtMostMaxDeliver ==
  \A m \in Msgs : CallsIn(hist[m]) <= MaxDeliver

\* The callback was invoked MaxDeliver times for one message, which the
\* broker has given up redelivering.
C34_Witness ==
  \E m \in Msgs : CallsIn(hist[m]) = MaxDeliver /\ msgs[m].state = "dead"

\* C35: a result message that is in flight to a pull loop is eventually given
\* a disposition (ack, negative-ack or terminate) by an iteration of the loop,
\* unless the handle of the loop is stopped first.
Disposed(m) ==
  /\ msgs[m].state # "inflight"
  /\ Len(hist[m]) > 0
  /\ hist[m][Len(hist[m])].disp \in {"ack", "nak", "term"}

StoppedFirst(m) ==
  msgs[m].state = "inflight" /\ handleState[msgs[m].handle] = "stopped"

C35_DeliveredGetsDisposition ==
  \A m \in Msgs :
    (msgs[m].state = "inflight") ~> (Disposed(m) \/ StoppedFirst(m))

\* A delivery was handed to an iteration whose callback threw, and disposed.
C35_Witness ==
  \E m \in Msgs :
    Disposed(m) /\ hist[m][Len(hist[m])].cbThrows

\* C36: an iteration of a pull loop starts only on a handle that no
\* cleanup() has stopped, and the disposition of the iteration is not issued
\* after the handle was stopped: once stopped, no callback call and no
\* disposition follows.
C36_NoIterationAfterStop ==
  [][\A m \in Msgs :
       Len(hist'[m]) > Len(hist[m])
         => /\ msgs[m].handle \in Tasks
            /\ handleState[msgs[m].handle] = "open"
            /\ stopCount[msgs[m].handle] = 0
            /\ ~hist'[m][Len(hist'[m])].afterStop]_vars

\* C37: the handle of every pull loop that is iterating and that no cleanup()
\* has stopped is in the subscription list, so that the next cleanup() stops
\* it.
C37_RunningLoopIsListed ==
  \A t \in Tasks :
    (tpc[t] = "loop" /\ handleState[t] = "open")
      => \E i \in DOMAIN subscriptions : subscriptions[i] = t

\* A pull loop has handled a message and is still open and listed.
C37_Witness ==
  \E t \in Tasks, m \in Msgs :
    /\ tpc[t] = "loop"
    /\ handleState[t] = "open"
    /\ tcat[t] = msgs[m].cat
    /\ hist[m] # <<>>
    /\ t \in Range(subscriptions)

\* C38: no step removes a durable consumer or a stream; cleanup() changes
\* neither; and a subscribe operation that finds the durable consumer of its
\* category at the broker goes on with it, the set of consumers unchanged.
C38_CleanupKeepsDurables ==
  [][/\ consumers \subseteq consumers'
     /\ \A n \in StreamNames : StreamExists(n) => streams'[n] = streams[n]
     /\ (stopCount' # stopCount \/ cleaned' # cleaned)
          => (consumers' = consumers /\ streams' = streams)
     /\ \A t \in Tasks :
          (/\ tpc[t] \in {"cinfo", "cadd"}
           /\ tpc'[t] # tpc[t]
           /\ ConsumerExists(tcat[t]))
            => consumers' = consumers]_vars

\* After a cleanup() that stopped the loop of one subscribe call, a later call
\* for the same category has gone on with the one durable consumer there is.
C38_Witness ==
  \E t1, t2 \in Tasks :
    /\ t1 < t2
    /\ tcat[t1] = tcat[t2]
    /\ stopCount[t1] = 1
    /\ t2 \notin raced
    /\ tpc[t2] \in {"consume", "loop"}
    /\ consumers = {ConsumerOf(tcat[t1])}

\* C39: a createWallet call that takes a provisioning step for the signing
\* request stream while JetStream is available goes on towards the durable
\* publish, whatever the broker answered for that stream.
C39_SigningStreamLeavesPath ==
  [][(/\ req.op = "createWallet"
      /\ req.pc \in {"sinfo", "sadd"}
      /\ jsAvailable
      /\ req' # req)
       => (req'.pc \in {"sadd", "pub"} /\ ~req'.core)]_vars
====
